---------------------------- MODULE Spec2Model ----------------------------
(***************************************************************************)
(* Ticket booking service (src/app.py): the bookings collection, the       *)
(* /book handler (book_ticket), the /api/analytics handler (get_analytics) *)
(* and the /api/clear handler (clear_data).                                *)
(*                                                                         *)
(* A timestamp is a number of minutes since an epoch.  A percentage is a   *)
(* number of hundredths (80.0 is 8000), so that round(x, 2) is exact.      *)
(***************************************************************************)
EXTENDS Integers, Sequences, FiniteSets, TLC

VARIABLES
    bookings_collection,  \* the collection, in scan order: what find() returns
    next_id,              \* the next _id insert_one hands out (never reused)
    request,              \* the request of the handler that answered last
    response,             \* its response
    handlers              \* the /book requests being served concurrently

vars == <<bookings_collection, next_id, request, response, handlers>>

---------------------------------------------------------------------------
(* Bounds of the model.                                                    *)

\* Inserts made in one run (the _id counter stops there).
MaxBookings == 5
\* Concurrent /book requests in one run.
MaxRequests == 4
\* Distinct hours of the preloaded collections of the timeline runs.
MaxHours == 26

(* Program constants.                                                      *)

\* "count > 3", src/app.py lines 52, 79 and 103.
SUSPICION_THRESHOLD == 3
\* "timeline[-24:]", src/app.py line 137.
TIMELINE_POINTS == 24
\* strftime('%Y-%m-%d %H:00'), src/app.py line 121: the calendar's units.
MinutesPerHour == 60
HoursPerDay == 24

---------------------------------------------------------------------------
(* Inputs.                                                                 *)

required_fields == <<"name", "source", "destination", "fingerprint">>

Payload(n, s, d, f) ==
    [name |-> n, source |-> s, destination |-> d, fingerprint |-> f]

\* Complete payloads with non-empty fields.
ValidPayloads ==
    { Payload("alice", "PUN", "MUM", "fp-A"),
      Payload("bob", "MUM", "DEL", "fp-A"),
      Payload("carol", "PUN", "MUM", "fp-B") }

\* Payloads with a required field absent.
AbsentFieldPayloads ==
    { [name |-> "alice", source |-> "PUN", fingerprint |-> "fp-A"],
      [name |-> "bob", source |-> "MUM", destination |-> "DEL"] }

\* Payloads with every required field present and one of them empty.
EmptyFieldPayloads ==
    { Payload("", "PUN", "MUM", "fp-B") }

Payloads == ValidPayloads \cup AbsentFieldPayloads \cup EmptyFieldPayloads

\* datetime.utcnow() at the requests: the last minute of an hour and the
\* first of the next.
Times == {119, 120}

RemoteAddr == "10.0.0.7"

---------------------------------------------------------------------------
(* Pure helpers of the handlers.                                           *)

\* hashlib.md5(fp.encode()).hexdigest()[:8]
Md5Prefix(fp) ==
    CASE fp = "fp-A" -> "f7b10f69"
      [] fp = "fp-B" -> "8189bda1"
      [] fp = ""     -> "d41d8cd9"

\* all(field in data for field in required_fields)
HasRequiredFields(data) ==
    \A i \in 1..Len(required_fields) : required_fields[i] \in DOMAIN data

\* datetime.isoformat(): the instant, rendered as <<day, hour, minute>>.
Isoformat(ts) ==
    <<ts \div (MinutesPerHour * HoursPerDay),
      (ts \div MinutesPerHour) % HoursPerDay,
      ts % MinutesPerHour>>

\* strftime('%Y-%m-%d %H:00'): the instant truncated to its hour, rendered
\* as <<day, hour>>.
HourKey(ts) ==
    <<ts \div (MinutesPerHour * HoursPerDay),
      (ts \div MinutesPerHour) % HoursPerDay>>

\* The order of two strftime keys as strings: fixed-width fields compared
\* left to right.
HourKeyLess(a, b) ==
    \/ a[1] < b[1]
    \/ a[1] = b[1] /\ a[2] < b[2]

\* f"{b['source']} -> {b['destination']}"
Route(b) == <<b.source, b.destination>>

\* sorted(): a stable sort.  less holds the pairs <<i, j>> of positions
\* with s[i] ordered before s[j].  An element comes after the elements that
\* are ordered before it and after the earlier elements that it is not
\* ordered before.
Sorted(s, less) ==
    LET Before(i) ==
            {j \in 1..Len(s) :
                \/ <<j, i>> \in less
                \/ j < i /\ <<i, j>> \notin less}
    IN  [p \in 1..Len(s) |->
            s[CHOOSE i \in 1..Len(s) : Cardinality(Before(i)) = p - 1]]

\* The pairs of positions of s.
Pairs(s) == (1..Len(s)) \X (1..Len(s))

Reverse(s) == [i \in 1..Len(s) |-> s[Len(s) + 1 - i]]

\* seq[:n], where the code takes seq[-n:].
FirstN(s, n) ==
    IF Len(s) <= n THEN s ELSE SubSeq(s, 1, n)

\* seq[-n:]
LastN(s, n) ==
    IF Len(s) <= n THEN s ELSE SubSeq(s, Len(s) - n + 1, Len(s))

RECURSIVE SumSeq(_)
SumSeq(s) == IF s = <<>> THEN 0 ELSE Head(s) + SumSeq(Tail(s))

\* round(n / d * 100, 2) in hundredths: the nearest integer to 10000 n / d,
\* a tie going to the even one.
RoundPercent(n, d) ==
    LET q == (10000 * n) \div d
        r == (10000 * n) % d
    IN  IF 2 * r < d THEN q
        ELSE IF 2 * r > d THEN q + 1
        ELSE IF q % 2 = 0 THEN q ELSE q + 1

\* collections.Counter over a sequence of keys, and the dict filled by
\* d[k] = d.get(k, 0) + 1: the keys in order of first occurrence, and the
\* number of occurrences of each.
Counter(ks) ==
    LET first ==
            SelectSeq([i \in 1..Len(ks) |-> i],
                      LAMBDA i : \A j \in 1..(i - 1) : ks[j] # ks[i])
    IN  [keys |-> [p \in 1..Len(first) |-> ks[first[p]]],
         count |-> [k \in {ks[i] : i \in 1..Len(ks)} |->
                       Cardinality({i \in 1..Len(ks) : ks[i] = k})]]

\* max() of a non-empty sequence of numbers.
MaxOf(s) ==
    CHOOSE m \in {s[i] : i \in 1..Len(s)} : \A i \in 1..Len(s) : m >= s[i]

---------------------------------------------------------------------------
(* The collection's operations.                                            *)

\* An insert that skips a booking already stored with the same fields.
insert_unless_stored(coll, booking) ==
    IF \E i \in 1..Len(coll) :
           /\ coll[i].name = booking.name
           /\ coll[i].source = booking.source
           /\ coll[i].destination = booking.destination
           /\ coll[i].fingerprint = booking.fingerprint
           /\ coll[i].timestamp = booking.timestamp
    THEN coll
    ELSE Append(coll, booking)

\* bookings_collection.insert_one(booking)
insert_one(coll, booking) == Append(coll, booking)

\* count_documents({}): the filter left out.
count_all_documents(coll, fp) == Len(coll)

\* The number of distinct names among the documents of fp.
count_distinct_names(coll, fp) ==
    Cardinality({coll[i].name : i \in {j \in 1..Len(coll) :
                                          coll[j].fingerprint = fp}})

\* bookings_collection.count_documents({'fingerprint': fp})
count_documents(coll, fp) ==
    Cardinality({i \in 1..Len(coll) : coll[i].fingerprint = fp})

\* delete_one({}) where the code calls delete_many({}): the first document
\* goes, the others stay.
delete_one(coll) == IF coll = <<>> THEN <<>> ELSE Tail(coll)

\* bookings_collection.delete_many({})
delete_many(coll) == <<>>

\* list(bookings_collection.find())
find(coll) == coll

---------------------------------------------------------------------------
(* book_ticket                                                             *)

\* The booking record of lines 34-42, with the _id insert_one gives it.
NewBooking(data, now, id) ==
    [_id |-> id,
     name |-> data.name,
     source |-> data.source,
     destination |-> data.destination,
     fingerprint |-> data.fingerprint,
     fingerprint_hash |-> Md5Prefix(data.fingerprint),
     timestamp |-> now,
     ip_address |-> RemoteAddr]

\* is_suspicious = booking_count > 3
IsSuspicious(count) == count > SUSPICION_THRESHOLD

MissingFields ==
    [status |-> 400, error |-> "Missing required fields"]

BookingResponse(id, booking_count) ==
    [status |-> 200,
     success |-> TRUE,
     booking_id |-> id,
     booking_count |-> booking_count,
     is_suspicious |-> IsSuspicious(booking_count),
     message |-> "Ticket booked successfully!"]

---------------------------------------------------------------------------
(* get_analytics                                                           *)

\* Counter(booking['fingerprint'] for booking in all_bookings)
fingerprint_counts(all_bookings) ==
    Counter([i \in 1..Len(all_bookings) |-> all_bookings[i].fingerprint])

\* The scan without its filter.
fp_bookings_unfiltered(all_bookings, fp) == all_bookings

\* [b for b in all_bookings if b['fingerprint'] == fp]
fp_bookings(all_bookings, fp) ==
    SelectSeq(all_bookings, LAMBDA b : b.fingerprint = fp)

\* sorted(fp_bookings, key=...)[::-1] where the code passes reverse=True:
\* bookings of one instant come out in the reverse of their scan order.
SortedThenReversed(bs) ==
    Reverse(Sorted(bs, {p \in Pairs(bs) :
                           bs[p[1]].timestamp < bs[p[2]].timestamp}))

\* sorted(fp_bookings, key=lambda x: x['timestamp'], reverse=True)
SortedNewestFirst(bs) ==
    Sorted(bs, {p \in Pairs(bs) :
                   bs[p[1]].timestamp > bs[p[2]].timestamp})

\* count >= 3 where the code has count > 3.
DetailSuspiciousFromThree(count) == count >= SUSPICION_THRESHOLD

\* 'is_suspicious': count > 3 (line 103)
DetailSuspicious(count) == count > SUSPICION_THRESHOLD

\* One element of 'bookings'.
HistoryEntry(b) ==
    [name |-> b.name,
     route |-> Route(b),
     timestamp |-> Isoformat(b.timestamp),
     ip |-> b.ip_address]

\* The dict appended to fingerprint_details for fp (lines 93-113).
FingerprintDetail(all_bookings, fp, count) ==
    LET bs == fp_bookings(all_bookings, fp)
        sorted == SortedNewestFirst(bs)
    IN  [fingerprint_id |-> Md5Prefix(fp),
         full_fingerprint |-> fp,
         booking_count |-> count,
         is_suspicious |-> DetailSuspicious(count),
         names_used |-> {bs[i].name : i \in 1..Len(bs)},
         routes |-> {Route(bs[i]) : i \in 1..Len(bs)},
         last_booking |->
             Isoformat(MaxOf([i \in 1..Len(bs) |-> bs[i].timestamp])),
         bookings |-> [i \in 1..Len(sorted) |-> HistoryEntry(sorted[i])]]

\* fingerprint_details after the sort of line 116, whose key, the entry's
\* booking_count, is the fingerprint's count.
FingerprintDetails(all_bookings) ==
    LET c == fingerprint_counts(all_bookings)
        details ==
            [i \in 1..Len(c.keys) |->
                FingerprintDetail(all_bookings, c.keys[i], c.count[c.keys[i]])]
    IN  Sorted(details, {p \in Pairs(c.keys) :
               c.count[c.keys[p[1]]] > c.count[c.keys[p[2]]]})

\* sum(suspicious_fingerprints.values()) and len(suspicious_fingerprints),
\* suspicious_fingerprints being the counts above 3 (line 79).
SuspiciousCounts(c) ==
    SelectSeq([i \in 1..Len(c.keys) |-> c.count[c.keys[i]]], IsSuspicious)

\* The rate as a fraction of 1, the "* 100" left out.
FraudRateAsFraction(suspicious_bookings, total_bookings) ==
    IF total_bookings > 0
    THEN RoundPercent(suspicious_bookings, total_bookings) \div 100
    ELSE 0

\* round(suspicious_bookings / total_bookings * 100, 2) if total_bookings > 0
\* else 0
FraudRate(suspicious_bookings, total_bookings) ==
    IF total_bookings > 0
    THEN RoundPercent(suspicious_bookings, total_bookings)
    ELSE 0

\* timeline[:24]: the oldest points.
TimelineHead(timeline) == FirstN(timeline, TIMELINE_POINTS)

\* timeline[-24:] (line 137)
TimelineTail(timeline) == LastN(timeline, TIMELINE_POINTS)

\* timeline[-24:], timeline being the hourly counts sorted by their key
\* (lines 119-125 and 137).
Timeline(all_bookings) ==
    LET timeline_data ==
            Counter([i \in 1..Len(all_bookings) |->
                        HourKey(all_bookings[i].timestamp)])
        items ==
            [i \in 1..Len(timeline_data.keys) |->
                [time |-> timeline_data.keys[i],
                 count |-> timeline_data.count[timeline_data.keys[i]]]]
        timeline ==
            Sorted(items, {p \in Pairs(items) :
                              HourKeyLess(items[p[1]].time, items[p[2]].time)})
    IN  TimelineTail(timeline)

\* The JSON of lines 127-138.
AnalyticsResponse(all_bookings) ==
    LET c == fingerprint_counts(all_bookings)
        suspicious == SuspiciousCounts(c)
        total_bookings == Len(all_bookings)
        suspicious_bookings == SumSeq(suspicious)
    IN  [status |-> 200,
         success |-> TRUE,
         summary |->
             [total_bookings |-> total_bookings,
              unique_fingerprints |-> Len(c.keys),
              suspicious_users |-> Len(suspicious),
              suspicious_bookings |-> suspicious_bookings,
              fraud_rate |-> FraudRate(suspicious_bookings, total_bookings)],
         fingerprint_details |-> FingerprintDetails(all_bookings),
         timeline |-> Timeline(all_bookings)]

\* The JSON of line 147.
ClearResponse ==
    [status |-> 200, success |-> TRUE,
     message |-> "All data cleared successfully"]

---------------------------------------------------------------------------
(* The handlers, one request at a time.                                    *)

NoRequest == [op |-> "none"]
Idle == [pc |-> "idle"]

Init ==
    /\ bookings_collection = <<>>
    /\ next_id = 1
    /\ request = NoRequest
    /\ response = NoRequest
    /\ handlers = [r \in 1..MaxRequests |-> Idle]

\* POST /book with body data, served at instant now.
book_ticket(data, now) ==
    /\ request' = [op |-> "book", data |-> data]
    /\ IF ~HasRequiredFields(data)
       THEN /\ response' = MissingFields
            /\ UNCHANGED <<bookings_collection, next_id>>
       ELSE /\ LET booking == NewBooking(data, now, next_id)
                   stored == insert_one(bookings_collection, booking)
                   booking_count == count_documents(stored, data.fingerprint)
               IN  /\ bookings_collection' = stored
                   /\ response' = BookingResponse(next_id, booking_count)
            /\ next_id' = next_id + 1
    /\ UNCHANGED handlers

\* GET /api/analytics
get_analytics ==
    /\ request' = [op |-> "analytics"]
    /\ response' = AnalyticsResponse(find(bookings_collection))
    /\ UNCHANGED <<bookings_collection, next_id, handlers>>

\* POST /api/clear
clear_data ==
    /\ request' = [op |-> "clear"]
    /\ bookings_collection' = delete_many(bookings_collection)
    /\ response' = ClearResponse
    /\ UNCHANGED <<next_id, handlers>>

BookValid ==
    /\ next_id <= MaxBookings
    /\ \E data \in ValidPayloads \cup AbsentFieldPayloads, now \in Times :
           book_ticket(data, now)

Next == BookValid \/ get_analytics \/ clear_data

Spec == Init /\ [][Next]_vars

(* The same handlers on every payload, at one instant.                     *)

BookAny ==
    /\ next_id <= MaxBookings
    /\ \E data \in Payloads : book_ticket(data, 120)

NextValidation == BookAny \/ get_analytics \/ clear_data

SpecValidation == Init /\ [][NextValidation]_vars

---------------------------------------------------------------------------
(* /book requests served concurrently: the insert of line 45 and the count *)
(* of line 48 are two steps, and other requests run between them.  Request *)
(* r + 1 is received after request r.                                      *)

ConcurrentPayloads ==
    { Payload("alice", "PUN", "MUM", "fp-A"),
      Payload("carol", "PUN", "MUM", "fp-B"),
      [name |-> "bob", source |-> "MUM", destination |-> "DEL"] }

\* Lines 26-45 of request r: validation, the record, insert_one.
book_insert(r, data, now) ==
    /\ handlers[r].pc = "idle"
    /\ r > 1 => handlers[r - 1].pc # "idle"
    /\ IF ~HasRequiredFields(data)
       THEN /\ handlers' = [handlers EXCEPT ![r] =
                   [pc |-> "done", data |-> data, response |-> MissingFields]]
            /\ UNCHANGED <<bookings_collection, next_id>>
       ELSE /\ next_id <= MaxBookings
            /\ bookings_collection' =
                   insert_one(bookings_collection,
                              NewBooking(data, now, next_id))
            /\ next_id' = next_id + 1
            /\ handlers' = [handlers EXCEPT ![r] =
                   [pc |-> "inserted", data |-> data, inserted_id |-> next_id]]
    /\ UNCHANGED <<request, response>>

\* Lines 48-60 of request r: count_documents and the response.
book_count(r) ==
    /\ handlers[r].pc = "inserted"
    /\ LET booking_count ==
               count_documents(bookings_collection,
                               handlers[r].data.fingerprint)
       IN  handlers' = [handlers EXCEPT ![r] =
               [pc |-> "done", data |-> handlers[r].data,
                inserted_id |-> handlers[r].inserted_id,
                response |->
                    BookingResponse(handlers[r].inserted_id, booking_count)]]
    /\ UNCHANGED <<bookings_collection, next_id, request, response>>

BookInsert ==
    \E r \in 1..MaxRequests, data \in ConcurrentPayloads :
        book_insert(r, data, 120)

BookCount == \E r \in 1..MaxRequests : book_count(r)

NextConcurrent == BookInsert \/ BookCount \/ clear_data

SpecConcurrent == Init /\ [][NextConcurrent]_vars

(* Concurrent /book requests and no /api/clear.                            *)

NextIngest == BookInsert \/ BookCount

SpecIngest == Init /\ [][NextIngest]_vars

---------------------------------------------------------------------------
(* Runs that start on a stored collection (the database outlives the       *)
(* process): n distinct hours, every step-th hour from hour 20 of day 0,   *)
(* with per bookings in each, scanned oldest or newest first.              *)

PreloadedBooking(id, hour, minute) ==
    NewBooking(Payload("alice", "PUN", "MUM", "fp-A"),
               hour * MinutesPerHour + minute, id)

Preloaded(n, step, per, newest_first) ==
    [i \in 1..(n * per) |->
        LET j == IF newest_first THEN n * per + 1 - i ELSE i
            h == (j - 1) \div per
            m == (j - 1) % per
        IN  PreloadedBooking(i, 20 + h * step, 59 * m)]

\* The _ids below this one are those of the stored and the deleted bookings.
FirstTimelineId == 2 * MaxHours + 1

InitTimeline ==
    /\ \E n \in 0..MaxHours, step \in {1, 3}, per \in {1, 2},
          newest_first \in BOOLEAN :
           bookings_collection = Preloaded(n, step, per, newest_first)
    /\ next_id = FirstTimelineId
    /\ request = NoRequest
    /\ response = NoRequest
    /\ handlers = [r \in 1..MaxRequests |-> Idle]

\* A booking in an hour before every stored one, or in the hour after the
\* first stored one.
TimelineTimes == {19 * MinutesPerHour + 30, 21 * MinutesPerHour + 30}

BookLate ==
    /\ next_id <= FirstTimelineId
    /\ \E now \in TimelineTimes :
           book_ticket(Payload("carol", "PUN", "MUM", "fp-B"), now)

NextTimeline == BookLate \/ get_analytics \/ clear_data

SpecTimeline == InitTimeline /\ [][NextTimeline]_vars

---------------------------------------------------------------------------
(* Properties.                                                             *)

IsAnalytics == request.op = "analytics"
IsBooked == request.op = "book" /\ response.status = 200
Details == response.fingerprint_details
Summary == response.summary

\* The positions of the stored events of fingerprint fp.
Stored(fp) ==
    {i \in 1..Len(bookings_collection) :
        bookings_collection[i].fingerprint = fp}

StoredFingerprints ==
    {bookings_collection[i].fingerprint : i \in 1..Len(bookings_collection)}

\* A rendered instant read back as minutes.
IsoMinutes(t) == (t[1] * HoursPerDay + t[2]) * MinutesPerHour + t[3]

\* History element h shows event b.
Shows(h, b) ==
    /\ h.name = b.name
    /\ h.route = <<b.source, b.destination>>
    /\ IsoMinutes(h.timestamp) = b.timestamp

\* C1: in every analytics report, an entry is suspicious exactly when its
\* booking_count is above 3, booking_count being the number of stored events
\* of its fingerprint (3 is not suspicious, 4 is), and suspicious_users is
\* the number of suspicious entries.
C1_SuspiciousIffAboveThree ==
    IsAnalytics =>
        /\ \A k \in 1..Len(Details) :
               LET e == Details[k] IN
               /\ e.booking_count = Cardinality(Stored(e.full_fingerprint))
               /\ e.is_suspicious <=> e.booking_count > 3
               /\ e.booking_count = 3 => ~e.is_suspicious
               /\ e.booking_count = 4 => e.is_suspicious
        /\ Summary.suspicious_users =
               Cardinality({k \in 1..Len(Details) : Details[k].is_suspicious})

\* A report with a fingerprint of exactly 4 events, flagged, beside one of
\* fewer, not flagged.
C1_Witness ==
    /\ IsAnalytics
    /\ \E k, l \in 1..Len(Details) :
           /\ Details[k].booking_count = 4 /\ Details[k].is_suspicious
           /\ Details[l].booking_count < 4 /\ ~Details[l].is_suspicious
    /\ Summary.suspicious_users = 1

\* C2: the report groups the stored events by fingerprint into a partition:
\* one entry per distinct fingerprint, each entry's history holding exactly
\* the stored events of its fingerprint (none dropped, none twice), and
\* total_bookings is the sum of the booking_counts and the number of stored
\* events.
C2_GroupingIsPartition ==
    IsAnalytics =>
        /\ \A k, l \in 1..Len(Details) :
               Details[k].full_fingerprint = Details[l].full_fingerprint
                   => k = l
        /\ {Details[k].full_fingerprint : k \in 1..Len(Details)}
               = StoredFingerprints
        /\ Summary.unique_fingerprints = Cardinality(StoredFingerprints)
        /\ Summary.unique_fingerprints = Len(Details)
        /\ \A k \in 1..Len(Details) :
               LET e == Details[k]
                   h == e.bookings
                   mine == Stored(e.full_fingerprint)
               IN  /\ Len(h) = Cardinality(mine)
                   /\ e.booking_count = Len(h)
                   /\ \A a \in 1..Len(h) :
                          Cardinality({b \in 1..Len(h) : h[b] = h[a]}) =
                          Cardinality({i \in mine :
                              Shows(h[a], bookings_collection[i])})
                   /\ \A i \in mine :
                          \E a \in 1..Len(h) :
                              Shows(h[a], bookings_collection[i])
        /\ Summary.total_bookings = Len(bookings_collection)
        /\ Summary.total_bookings =
               SumSeq([k \in 1..Len(Details) |-> Details[k].booking_count])

\* A report over two fingerprints, with two events that look the same.
C2_Witness ==
    /\ IsAnalytics
    /\ Len(Details) = 2
    /\ Summary.total_bookings = 5
    /\ \E k \in 1..Len(Details) :
           \E a, b \in 1..Len(Details[k].bookings) :
               a # b /\ Details[k].bookings[a] = Details[k].bookings[b]

\* C5: suspicious_bookings is the number of stored events of the
\* fingerprints with more than 3 events, between 0 and total_bookings;
\* fraud_rate is suspicious_bookings / total_bookings * 100 to the nearest
\* hundredth, within [0, 100], and 0 on an empty store; 4 events of fp-A and
\* 1 of fp-B give 4, 5 and 80.
C5_FraudRate ==
    IsAnalytics =>
        LET sb == Summary.suspicious_bookings
            tb == Summary.total_bookings
            fr == Summary.fraud_rate
            err == fr * tb - 10000 * sb
        IN  /\ sb = Cardinality(
                   {i \in 1..Len(bookings_collection) :
                       Cardinality(Stored(bookings_collection[i].fingerprint))
                           > 3})
            /\ 0 <= sb /\ sb <= tb
            /\ tb > 0 => /\ 0 <= fr /\ fr <= 10000
                         /\ 2 * err <= tb /\ -2 * err <= tb
            /\ tb = 0 => fr = 0
            /\ (/\ Cardinality(Stored("fp-A")) = 4
                /\ Cardinality(Stored("fp-B")) = 1
                /\ Len(bookings_collection) = 5)
                   => sb = 4 /\ tb = 5 /\ fr = 8000

\* The report after 4 bookings of fp-A and 1 of fp-B.
C5_Witness ==
    /\ IsAnalytics
    /\ Cardinality(Stored("fp-A")) = 4
    /\ Cardinality(Stored("fp-B")) = 1
    /\ Summary.fraud_rate = 8000

EmptyReport ==
    [status |-> 200,
     success |-> TRUE,
     summary |-> [total_bookings |-> 0, unique_fingerprints |-> 0,
                  suspicious_users |-> 0, suspicious_bookings |-> 0,
                  fraud_rate |-> 0],
     fingerprint_details |-> <<>>,
     timeline |-> <<>>]

\* C6: a reset leaves no stored event, so the analytics asked for next is
\* the empty report (all five numbers 0, no entry, no bucket), and the
\* first booking after it is reported with count 1, not suspicious.
C6_ResetDiscardsAll ==
    /\ request.op = "clear" =>
           /\ response.status = 200
           /\ bookings_collection = <<>>
           /\ AnalyticsResponse(find(bookings_collection)) = EmptyReport
    /\ (IsAnalytics /\ bookings_collection = <<>>) => response = EmptyReport
    /\ (IsBooked /\ Len(bookings_collection) = 1) =>
           /\ response.booking_count = 1
           /\ ~response.is_suspicious

\* The empty report, asked for after a reset that followed 4 bookings or
\* more.
C6_Witness ==
    /\ IsAnalytics
    /\ bookings_collection = <<>>
    /\ next_id > 4
    /\ response = EmptyReport

\* C7: every entry's history is in non-increasing order of timestamp, the
\* events of one instant in their scan order, and last_booking is the
\* timestamp of the first element, the group's latest.
C7_HistoryNewestFirstStable ==
    IsAnalytics =>
        \A k \in 1..Len(Details) :
            LET e == Details[k]
                h == e.bookings
                mine == SelectSeq(bookings_collection,
                            LAMBDA b : b.fingerprint = e.full_fingerprint)
            IN  /\ \A a \in 1..(Len(h) - 1) :
                       IsoMinutes(h[a].timestamp)
                           >= IsoMinutes(h[a + 1].timestamp)
                /\ \A i \in 1..Len(mine) :
                       LET t == mine[i].timestamp
                           shown == SelectSeq(h,
                               LAMBDA x : IsoMinutes(x.timestamp) = t)
                           scanned == SelectSeq(mine,
                               LAMBDA b : b.timestamp = t)
                       IN  /\ Len(shown) = Len(scanned)
                           /\ \A a \in 1..Len(shown) :
                                  Shows(shown[a], scanned[a])
                /\ Len(h) > 0
                /\ e.last_booking = h[1].timestamp
                /\ \A i \in 1..Len(mine) :
                       IsoMinutes(e.last_booking) >= mine[i].timestamp

\* A history with two different events of one instant, of a group that was
\* stored oldest first.
C7_Witness ==
    /\ IsAnalytics
    /\ \E k \in 1..Len(Details) :
           LET h == Details[k].bookings IN
           /\ \E a \in 1..(Len(h) - 1) :
                  /\ h[a].timestamp = h[a + 1].timestamp
                  /\ h[a].name # h[a + 1].name
           /\ \E i, j \in Stored(Details[k].full_fingerprint) :
                  /\ i < j
                  /\ bookings_collection[i].timestamp
                         < bookings_collection[j].timestamp

\* C3: with one request at a time, a successful booking appends exactly one
\* event (also when the same payload is stored already), leaves the stored
\* events as they were, and reports 1 + the number of events of its
\* fingerprint stored before, flagged when that is above 3; the analytics
\* asked for next shows the same count and flag for the fingerprint.
C3_BookingAppendsAndCounts ==
    /\ [][ (request'.op = "book" /\ response'.status = 200) =>
               LET data == request'.data
                   n == Len(bookings_collection)
                   before == Cardinality(Stored(data.fingerprint))
               IN  /\ Len(bookings_collection') = n + 1
                   /\ \A i \in 1..n :
                          bookings_collection'[i] = bookings_collection[i]
                   /\ bookings_collection'[n + 1].name = data.name
                   /\ bookings_collection'[n + 1].source = data.source
                   /\ bookings_collection'[n + 1].destination
                          = data.destination
                   /\ bookings_collection'[n + 1].fingerprint
                          = data.fingerprint
                   /\ bookings_collection'[n + 1]._id = response'.booking_id
                   /\ response'.booking_count = 1 + before
                   /\ response'.is_suspicious <=> 1 + before > 3
         ]_vars
    /\ [](IsBooked =>
             LET report == AnalyticsResponse(find(bookings_collection)) IN
             \E e \in {report.fingerprint_details[k] :
                          k \in DOMAIN report.fingerprint_details} :
                 /\ e.full_fingerprint = request.data.fingerprint
                 /\ e.booking_count = response.booking_count
                 /\ e.is_suspicious = response.is_suspicious)

\* A booking answered with count 4, flagged, whose payload and instant were
\* stored already.
C3_Witness ==
    /\ IsBooked
    /\ response.booking_count = 4
    /\ response.is_suspicious
    /\ LET n == Len(bookings_collection) IN
       /\ bookings_collection[n]._id = response.booking_id
       /\ \E i \in 1..(n - 1) :
              /\ bookings_collection[i].name = bookings_collection[n].name
              /\ bookings_collection[i].fingerprint
                     = bookings_collection[n].fingerprint
              /\ bookings_collection[i].timestamp
                     = bookings_collection[n].timestamp

\* C4: a booking whose payload lacks one of name, source, destination and
\* fingerprint, or holds it empty, is answered 400 and stores nothing.
C4_AbsentOrEmptyRejected ==
    [][ (/\ request'.op = "book"
         /\ \E i \in 1..Len(required_fields) :
                \/ required_fields[i] \notin DOMAIN request'.data
                \/ request'.data[required_fields[i]] = "")
            => /\ response'.status = 400
               /\ bookings_collection' = bookings_collection
      ]_vars

\* The hour, counted from the epoch, of an instant and of a bucket's key.
HourOf(ts) == ts \div 60
KeyHour(k) == k[1] * 24 + k[2]

StoredHours ==
    {HourOf(bookings_collection[i].timestamp) :
        i \in 1..Len(bookings_collection)}

Answered ==
    {r \in 1..MaxRequests :
        handlers[r].pc = "done" /\ handlers[r].response.status = 200}

\* C9 as stated: under any interleaving of bookings and resets, a booking
\* answered 200 reports a count that includes the event it inserted, so a
\* count of 1 or more.
C9_CountIncludesOwnEvent ==
    \A r \in Answered : handlers[r].response.booking_count >= 1

\* C9, amended: a booking answered 200 reports the number of events of its
\* fingerprint stored at its count step, flagged when above 3; the count
\* includes the event it inserted, so is 1 or more, when that event is still
\* stored then (no reset ran since its insert); after a reset in between
\* the count covers later inserts only.
C9_CountAtCountStep ==
    [][ \A r \in 1..MaxRequests :
            (handlers[r].pc = "inserted" /\ handlers'[r].pc = "done") =>
                LET f == handlers[r].data.fingerprint
                    own == handlers[r].inserted_id
                    c == handlers'[r].response.booking_count
                    counted == {bookings_collection[i]._id : i \in Stored(f)}
                    stored == {bookings_collection[i]._id :
                                  i \in 1..Len(bookings_collection)}
                IN  /\ handlers'[r].response.status = 200
                    /\ c = Cardinality(counted)
                    /\ handlers'[r].response.is_suspicious <=> c > 3
                    /\ own \in stored => (own \in counted /\ c >= 1)
                    /\ own \notin stored => \A id \in counted : id > own
      ]_vars

\* A booking answered with count 0 after a reset between its insert and
\* its count, beside one answered with count 2.
C9_Witness ==
    /\ \E r \in Answered : handlers[r].response.booking_count = 0
    /\ \E r \in Answered : handlers[r].response.booking_count = 2

\* The requests of fingerprint f between their insert and their count.
Counting(f) ==
    {r \in 1..MaxRequests :
        handlers[r].pc = "inserted" /\ handlers[r].data.fingerprint = f}

\* C10: with concurrent bookings and no reset, the count a booking reports
\* is at least 1 + the number of events of its fingerprint stored before
\* its insert and at most the number stored; when no booking of the
\* fingerprint is between insert and count, some response carries the full
\* number, and is flagged when that is above 3.
C10_ConcurrentCountBounds ==
    /\ \A r \in Answered :
           LET f == handlers[r].data.fingerprint
               own == handlers[r].inserted_id
               c == handlers[r].response.booking_count
           IN  /\ c >= Cardinality({i \in Stored(f) :
                                       bookings_collection[i]._id <= own})
               /\ c <= Cardinality(Stored(f))
               /\ handlers[r].response.is_suspicious <=> c > 3
    /\ \A f \in StoredFingerprints :
           Counting(f) = {} =>
               \E r \in Answered :
                   /\ handlers[r].data.fingerprint = f
                   /\ handlers[r].response.booking_count
                          = Cardinality(Stored(f))
                   /\ Cardinality(Stored(f)) > 3
                          => handlers[r].response.is_suspicious

\* Four bookings of fp-A all answered, the first to insert reporting more
\* than its own event, and one response flagged.
C10_Witness ==
    /\ Cardinality(Stored("fp-A")) = 4
    /\ Counting("fp-A") = {}
    /\ \E r \in Answered :
           /\ handlers[r].inserted_id = 1
           /\ handlers[r].response.booking_count > 1
    /\ \E r \in Answered : handlers[r].response.is_suspicious

===========================================================================
